---- MODULE Spec2Model ----
(***************************************************************************)
(* The outbound HTTP response entity of lib/src/HttpResponseImpl.cc: its   *)
(* header-line parser, header-block builder, the three renderers, the      *)
(* render cache with its date patch, and the not-found page factory.       *)
(*                                                                         *)
(* A std::string is a sequence of one-character strings, so offsets and    *)
(* lengths are byte offsets and byte lengths (1-based here, 0-based in the *)
(* code).  A shared_ptr is <<>> when null and <<x>> when it points at x;   *)
(* the strings renderToString hands out live in `heap` and are named by    *)
(* their index there, 0 being the null pointer.                            *)
(***************************************************************************)
EXTENDS Integers, Sequences, FiniteSets, TLC

VARIABLES
    resp,        \* the HttpResponseImpl under test
    heap,        \* every std::string made by make_shared in renderToString
    clock,       \* trantor::Date::now(), in ticks of 1/TicksPerSec second
    fileOk,      \* whether stat() of the sendfile path succeeds
    sendDate,    \* HttpAppFrameworkImpl::sendDateHeader()
    sendServer,  \* HttpAppFrameworkImpl::sendServerHeader()
    last,        \* what the latest call gave back to its caller
    returned,    \* the buffers renderToString returned, with the second of each call
    custom404,   \* getCustom404Page(): 0 when none, else the instance
    templ,       \* whether DrTemplateBase::newTemplate("drogon::NotFound") finds a template
    pages,       \* thread404Pages: <<>> before call_once, else one instance per IO loop
    objs,        \* number of response instances allocated so far
    handed,      \* the calls of newNotFoundResponse that returned: context and instance
    stuck,       \* the contexts whose call of newNotFoundResponse never returns
    other,       \* a second HttpResponseImpl, the argument of swap
    lifeOps,     \* how many swap, clear, copy and setExpiredTime calls were made so far
    input        \* the arguments of the latest call of the line parser or the file factory

vars == <<resp, heap, clock, fileOk, sendDate, sendServer, last, returned,
          custom404, templ, pages, objs, handed, stuck, other, lifeOps, input>>

respVars == <<resp, heap, clock, fileOk, sendDate, sendServer, last, returned>>
nfVars == <<custom404, templ, pages, objs, handed, stuck>>
auxVars == <<other, lifeOps, input>>

\* ---------------------------------------------------------------- bounds

MaxClock == 4
TicksPerSec == 2
MaxRenders == 3
MaxCalls == 4
ThreadNum == 2
StackLimit == 3

\* ------------------------------------------------------------- constants

httpFullDateStringLength == 29
npos == -1
Null == <<>>
Some(x) == <<x>>

StrHttp11 == <<"H","T","T","P","/","1",".","1"," ">>
StrContentLength == <<"C","o","n","t","e","n","t","-","L","e","n","g","t","h",":"," ">>
StrConnectionClose == <<"C","o","n","n","e","c","t","i","o","n",":"," ","c","l","o","s","e","\r","\n">>
StrConnection == <<"C","o","n","n","e","c","t","i","o","n">>
StrColonSp == <<":"," ">>
StrCRLF == <<"\r","\n">>
StrDate == <<"D","a","t","e",":"," ">>
StrServerHeader == <<"S","e","r","v","e","r",":"," ","d","r","o","g","o","n","\r","\n">>
StrSetCookieKey == <<"s","e","t","-","c","o","o","k","i","e">>
StrPath == <<"p","a","t","h">>
StrDomain == <<"d","o","m","a","i","n">>
StrExpires == <<"e","x","p","i","r","e","s">>
StrSecure == <<"s","e","c","u","r","e">>
StrHttpOnly == <<"h","t","t","p","o","n","l","y">>
StrSetCookie == <<"S","e","t","-","C","o","o","k","i","e",":"," ">>
StrCkPath == <<";"," ","P","a","t","h","=">>
StrCkDomain == <<";"," ","D","o","m","a","i","n","=">>
StrCkExpires == <<";"," ","E","x","p","i","r","e","s","=">>
StrCkSecure == <<";"," ","S","e","c","u","r","e">>
StrCkHttpOnly == <<";"," ","H","t","t","p","O","n","l","y">>
StrDatePrefix == <<"F","r","i",","," ","2","3"," ","A","u","g"," ","2","0","1","9"," ","1","2",":">>
StrGMT == <<" ","G","M","T">>
StrOK == <<"O","K">>
StrNotFound == <<"N","o","t"," ","F","o","u","n","d">>
StrCTHtml == <<"C","o","n","t","e","n","t","-","T","y","p","e",":"," ","t","e","x","t","/","h","t","m","l",";"," ","c","h","a","r","s","e","t","=","u","t","f","-","8","\r","\n">>
StrCTPlain == <<"C","o","n","t","e","n","t","-","T","y","p","e",":"," ","t","e","x","t","/","p","l","a","i","n",";"," ","c","h","a","r","s","e","t","=","u","t","f","-","8","\r","\n">>
StrContentTypeKey == <<"c","o","n","t","e","n","t","-","t","y","p","e">>
StrConnectionKey == <<"c","o","n","n","e","c","t","i","o","n">>

\* The header lines handed to the line parser, each with the place of its colon.
LineConnection == <<"C","o","n","n","e","c","t","i","o","n",":"," ","k","e","e","p","-","a","l","i","v","e">>
LineContentType == <<"C","o","n","t","e","n","t","-","T","y","p","e",":"," ","a","/","b">>
LineXTag == <<"X","-","T","a","g",":"," "," ","v","1"," ">>
LineCookie == <<"S","e","t","-","C","o","o","k","i","e",":"," ","a","=","1",";"," ","S","e","c","u","r","e">>
StrBodyHi == <<"h","i">>
StrBody404 == <<"4","0","4">>
StrCTJson == <<"C","o","n","t","e","n","t","-","T","y","p","e",":"," ","a","p","p","l","i","c","a","t","i","o","n","/","j","s","o","n",";"," ","c","h","a","r","s","e","t","=","u","t","f","-","8","\r","\n">>
StrFile == <<"/","f">>
FileSize == 204801
SendfileLimit == 1024 * 200
StrContentDispositionKey == <<"c","o","n","t","e","n","t","-","d","i","s","p","o","s","i","t","i","o","n">>
StrAttachment == <<"a","t","t","a","c","h","m","e","n","t",";"," ","f","i","l","e","n","a","m","e","=">>
StrAttachmentName == <<"a",".","t","x","t">>

\* ------------------------------------------------------- string helpers

Digit == <<"0","1","2","3","4","5","6","7","8","9">>
UpperCase == <<"A","B","C","D","E","F","G","H","I","J","K","L","M","N","O","P","Q","R","S","T","U","V","W","X","Y","Z">>
LowerCase == <<"a","b","c","d","e","f","g","h","i","j","k","l","m","n","o","p","q","r","s","t","u","v","w","x","y","z">>

\* ::tolower on one character
tolower(c) ==
    IF \E i \in 1..26 : UpperCase[i] = c
    THEN LowerCase[CHOOSE i \in 1..26 : UpperCase[i] = c]
    ELSE c

\* std::transform(..., ::tolower) over a string
ToLowerStr(s) == [i \in 1..Len(s) |-> tolower(s[i])]

isspace(c) == c \in {" ", "\t", "\n", "\r", "\f"}

\* snprintf("%d") / ("%lu") of a natural number
RECURSIVE Dec(_)
Dec(n) == IF n < 10 THEN <<Digit[n + 1]>> ELSE Dec(n \div 10) \o <<Digit[(n % 10) + 1]>>

\* two decimal digits, zero padded
Dec2(n) == <<Digit[(n \div 10) + 1], Digit[(n % 10) + 1]>>

\* s.substr(pos) with a 0-based pos
Substr(s, pos) == SubSeq(s, pos + 1, Len(s))

\* s.find(c): the 0-based place of the first c, npos when there is none
Find(s, c) ==
    IF \E i \in 1..Len(s) : s[i] = c
    THEN (CHOOSE i \in 1..Len(s) : s[i] = c /\ \A j \in 1..(i - 1) : s[j] # c) - 1
    ELSE npos

\* the number of leading isspace characters of s from 0-based pos on
RECURSIVE SkipSpaces(_, _)
SkipSpaces(s, pos) ==
    IF pos < Len(s) /\ isspace(s[pos + 1]) THEN SkipSpaces(s, pos + 1) ELSE pos

\* the loop of lines 498-501: drop trailing isspace characters
RECURSIVE TrimRight(_)
TrimRight(s) ==
    IF s # <<>> /\ isspace(s[Len(s)]) THEN TrimRight(SubSeq(s, 1, Len(s) - 1)) ELSE s

\* whether t occurs in s starting at 1-based place i
OccursAt(s, t, i) == i + Len(t) - 1 <= Len(s) /\ SubSeq(s, i, i + Len(t) - 1) = t

Contains(s, t) == \E i \in 1..Len(s) : OccursAt(s, t, i)

\* trantor::Date::now().microSecondsSinceEpoch() / MICRO_SECONDS_PRE_SEC
SecondOf(t) == t \div TicksPerSec

\* utils::getHttpFullDate: a fixed-width 29 character RFC-1123 style date
getHttpFullDate(t) ==
    StrDatePrefix \o Dec2((SecondOf(t) \div 60) % 60) \o <<":">>
        \o Dec2(SecondOf(t) % 60) \o StrGMT

\* ------------------------------------------------- header table, cookies

\* headers_ and cookies_ are maps; each is kept as a sequence of entries with
\* distinct keys, which is also the order the render loops iterate them in.
HasKey(m, key) == \E i \in 1..Len(m) : m[i].k = key

\* m[key] = v
Put(m, key, v) ==
    IF HasKey(m, key)
    THEN [i \in 1..Len(m) |-> IF m[i].k = key THEN [k |-> key, v |-> v] ELSE m[i]]
    ELSE Append(m, [k |-> key, v |-> v])

\* Cookie cookie; cookie.setHttpOnly(false);
NewCookie ==
    [key_ |-> <<>>, value_ |-> <<>>, path_ |-> <<>>, domain_ |-> <<>>,
     expires_ |-> Null, secure_ |-> FALSE, httpOnly_ |-> FALSE]

\* utils::getHttpDate: the parsed date, unset when the text is no HTTP date
getHttpDate(v) == IF Len(v) = httpFullDateStringLength THEN Some(v) ELSE Null

\* Cookie::cookieString
cookieString(c) ==
    StrSetCookie \o c.key_ \o <<"=">> \o c.value_
        \o (IF c.path_ # <<>> THEN StrCkPath \o c.path_ ELSE <<>>)
        \o (IF c.domain_ # <<>> THEN StrCkDomain \o c.domain_ ELSE <<>>)
        \o (IF c.expires_ # Null THEN StrCkExpires \o c.expires_[1] ELSE <<>>)
        \o (IF c.secure_ THEN StrCkSecure ELSE <<>>)
        \o (IF c.httpOnly_ THEN StrCkHttpOnly ELSE <<>>)
        \o StrCRLF

\* utils::splitString(value, ";"): the non-empty pieces between separators
RECURSIVE splitString(_, _)
splitString(s, sep) ==
    IF s = <<>> THEN <<>>
    ELSE LET p == Find(s, sep) IN
         IF p = npos THEN <<s>>
         ELSE IF p = 0 THEN splitString(Substr(s, 1), sep)
         ELSE <<SubSeq(s, 1, p)>> \o splitString(Substr(s, p + 1), sep)

\* lines 512-534: one segment's name and value
CookieSegment(coo) ==
    LET epos == Find(coo, "=") IN
    IF epos # npos
    THEN LET name0 == SubSeq(coo, 1, epos)
         IN [name |-> Substr(name0, SkipSpaces(name0, 0)),
             value |-> Substr(coo, SkipSpaces(coo, epos + 1))]
    ELSE [name |-> Substr(coo, SkipSpaces(coo, 0)), value |-> <<>>]

\* lines 535-566 without the std::transform of lines 542-545: attribute names are
\* matched as they are written
CookieApplyExactCase(cookie, i, seg) ==
    IF i = 0
    THEN [cookie EXCEPT !.key_ = seg.name, !.value_ = seg.value]
    ELSE LET n == seg.name IN
         IF n = StrPath THEN [cookie EXCEPT !.path_ = seg.value]
         ELSE IF n = StrDomain THEN [cookie EXCEPT !.domain_ = seg.value]
         ELSE IF n = StrExpires THEN [cookie EXCEPT !.expires_ = getHttpDate(seg.value)]
         ELSE IF n = StrSecure THEN [cookie EXCEPT !.secure_ = TRUE]
         ELSE IF n = StrHttpOnly THEN [cookie EXCEPT !.httpOnly_ = TRUE]
         ELSE cookie

\* lines 535-566: what segment i does to the cookie being built
CookieApply(cookie, i, seg) ==
    IF i = 0
    THEN [cookie EXCEPT !.key_ = seg.name, !.value_ = seg.value]
    ELSE LET n == ToLowerStr(seg.name) IN
         IF n = StrPath THEN [cookie EXCEPT !.path_ = seg.value]
         ELSE IF n = StrDomain THEN [cookie EXCEPT !.domain_ = seg.value]
         ELSE IF n = StrExpires THEN [cookie EXCEPT !.expires_ = getHttpDate(seg.value)]
         ELSE IF n = StrSecure THEN [cookie EXCEPT !.secure_ = TRUE]
         ELSE IF n = StrHttpOnly THEN [cookie EXCEPT !.httpOnly_ = TRUE]
         ELSE cookie

\* the loop of lines 509-567 from segment i (0-based) on
RECURSIVE ParseCookie(_, _, _)
ParseCookie(values, i, cookie) ==
    IF i >= Len(values) THEN cookie
    ELSE ParseCookie(values, i + 1, CookieApply(cookie, i, CookieSegment(values[i + 1])))

\* ------------------------------------------------------------ the entity

\* HttpResponseImpl(code, type) with its member initialisers
NewResponse(code, message, ctString) ==
    [statusCode_ |-> code, statusMessage_ |-> message,
     headers_ |-> <<>>, cookies_ |-> <<>>,
     bodyPtr_ |-> Null, bodyViewPtr_ |-> Null, jsonPtr_ |-> Null,
     sendfileName_ |-> <<>>, closeConnection_ |-> FALSE,
     contentTypeString_ |-> ctString,
     fullHeaderString_ |-> Null,
     httpString_ |-> 0, datePos_ |-> npos, httpStringDate_ |-> -1,
     expriedTime_ |-> -1]

\* writeString(builder, *jsonPtr_) for a Json::Value holding an unsigned number
writeString(json) == Dec(json)

\* HttpResponseImpl::generateBodyFromJson
generateBodyFromJson(e) ==
    IF e.jsonPtr_ = Null THEN e
    ELSE [e EXCEPT !.bodyPtr_ = Some(writeString(e.jsonPtr_[1]))]

\* lines 219-221 and 285-287
bodyLength(e) ==
    IF e.bodyPtr_ # Null THEN Len(e.bodyPtr_[1])
    ELSE IF e.bodyViewPtr_ # Null THEN Len(e.bodyViewPtr_[1]) ELSE 0

\* lines 436-439 and 360-363
bodyBytes(e) ==
    IF e.bodyPtr_ # Null THEN e.bodyPtr_[1]
    ELSE IF e.bodyViewPtr_ # Null THEN e.bodyViewPtr_[1] ELSE <<>>

\* lines 211-215 and 277-281
statusLine(e) == StrHttp11 \o Dec(e.statusCode_) \o <<" ">> \o e.statusMessage_ \o StrCRLF

\* the loop of lines 252-258 and 321-327
RECURSIVE headerLines(_)
headerLines(h) ==
    IF h = <<>> THEN <<>>
    ELSE h[1].k \o StrColonSp \o h[1].v \o StrCRLF \o headerLines(Tail(h))

\* the loop of lines 412-418, 340-346 and 461-467
RECURSIVE cookieLines(_)
cookieLines(c) ==
    IF c = <<>> THEN <<>> ELSE cookieString(c[1].v) \o cookieLines(Tail(c))

\* lines 239-249: the synthetic Connection line of makeHeaderString
connectionLine(e) ==
    IF ~HasKey(e.headers_, StrConnection) /\ e.closeConnection_
    THEN StrConnectionClose ELSE <<>>

\* lines 259-263
serverLine == IF sendServer THEN StrServerHeader ELSE <<>>

\* makeHeaderString with the Content-Length taken before generateBodyFromJson has
\* turned the JSON value into the bytes of the body
makeHeaderStringLengthFirst(e) ==
    LET e1 == generateBodyFromJson(e) IN
    IF e1.sendfileName_ = <<>>
    THEN [e |-> e1, syserr |-> FALSE,
          out |-> statusLine(e1) \o StrContentLength \o Dec(bodyLength(e)) \o StrCRLF
                    \o connectionLine(e1) \o e1.contentTypeString_
                    \o headerLines(e1.headers_) \o serverLine]
    ELSE IF ~fileOk
    THEN [e |-> e1, syserr |-> TRUE, out |-> statusLine(e1)]
    ELSE [e |-> e1, syserr |-> FALSE,
          out |-> statusLine(e1) \o StrContentLength \o Dec(FileSize) \o StrCRLF
                    \o connectionLine(e1) \o e1.contentTypeString_
                    \o headerLines(e1.headers_) \o serverLine]

\* HttpResponseImpl::makeHeaderString(headerStringPtr): the entity after it and
\* the bytes it appended; syserr when stat failed and it returned early
makeHeaderString(e) ==
    LET e1 == generateBodyFromJson(e) IN
    IF e1.sendfileName_ = <<>>
    THEN [e |-> e1, syserr |-> FALSE,
          out |-> statusLine(e1) \o StrContentLength \o Dec(bodyLength(e1)) \o StrCRLF
                    \o connectionLine(e1) \o e1.contentTypeString_
                    \o headerLines(e1.headers_) \o serverLine]
    ELSE IF ~fileOk
    THEN [e |-> e1, syserr |-> TRUE, out |-> statusLine(e1)]
    ELSE [e |-> e1, syserr |-> FALSE,
          out |-> statusLine(e1) \o StrContentLength \o Dec(FileSize) \o StrCRLF
                    \o connectionLine(e1) \o e1.contentTypeString_
                    \o headerLines(e1.headers_) \o serverLine]

\* lines 420-433, 349-359 and 470-480: the Date line and the blank line
dateLines(t) ==
    IF sendDate THEN StrDate \o getHttpFullDate(t) \o StrCRLF \o StrCRLF ELSE StrCRLF

\* the date written one byte too early
patchDateShifted(s, datePos, newDate) ==
    [i \in 1..Len(s) |->
        IF datePos - 1 < i /\ i <= datePos - 1 + httpFullDateStringLength
        THEN newDate[i - datePos + 1] ELSE s[i]]

\* lines 384-387: a copy of the frozen string with the date written at datePos
patchDate(s, datePos, newDate) ==
    [i \in 1..Len(s) |->
        IF datePos < i /\ i <= datePos + httpFullDateStringLength
        THEN newDate[i - datePos] ELSE s[i]]

\* lines 400-444: the full render of renderToString
fullRender(e, hp, t) ==
    LET hdr == IF e.fullHeaderString_ = Null THEN makeHeaderString(e)
               ELSE [e |-> e, syserr |-> FALSE, out |-> e.fullHeaderString_[1]]
        s1 == hdr.out \o cookieLines(hdr.e.cookies_)
        e2 == IF sendDate THEN [hdr.e EXCEPT !.datePos_ = Len(s1) + Len(StrDate)] ELSE hdr.e
        s3 == s1 \o dateLines(t) \o bodyBytes(e2)
        id == Len(hp) + 1
    IN [e |-> IF e2.expriedTime_ >= 0 THEN [e2 EXCEPT !.httpString_ = id] ELSE e2,
        heap |-> Append(hp, s3), ret |-> id, syserr |-> hdr.syserr, failed |-> FALSE]

\* the date patched into the frozen string itself, without the copy of line 384
renderToStringInPlace(e, hp, t) ==
    IF e.expriedTime_ >= 0 /\ sendDate /\ e.datePos_ # npos
    THEN IF e.httpString_ = 0
         THEN [e |-> e, heap |-> hp, ret |-> 0, syserr |-> FALSE, failed |-> TRUE]
         ELSE IF SecondOf(t) # e.httpStringDate_
         THEN [e |-> [e EXCEPT !.httpStringDate_ = SecondOf(t)],
               heap |-> [hp EXCEPT ![e.httpString_] =
                            patchDate(hp[e.httpString_], e.datePos_, getHttpFullDate(t))],
               ret |-> e.httpString_, syserr |-> FALSE, failed |-> FALSE]
         ELSE [e |-> e, heap |-> hp, ret |-> e.httpString_, syserr |-> FALSE, failed |-> FALSE]
    ELSE IF e.expriedTime_ >= 0 /\ ~sendDate /\ e.httpString_ # 0
    THEN [e |-> e, heap |-> hp, ret |-> e.httpString_, syserr |-> FALSE, failed |-> FALSE]
    ELSE fullRender(e, hp, t)

\* renderToString without the branch of lines 392-398: with the Date header off
\* the frozen bytes are never returned again
renderToStringNoReuse(e, hp, t) ==
    IF e.expriedTime_ >= 0 /\ sendDate /\ e.datePos_ # npos
    THEN IF e.httpString_ = 0
         THEN [e |-> e, heap |-> hp, ret |-> 0, syserr |-> FALSE, failed |-> TRUE]
         ELSE IF SecondOf(t) # e.httpStringDate_
         THEN LET id == Len(hp) + 1 IN
              [e |-> [e EXCEPT !.httpStringDate_ = SecondOf(t), !.httpString_ = id],
               heap |-> Append(hp, patchDate(hp[e.httpString_], e.datePos_, getHttpFullDate(t))),
               ret |-> id, syserr |-> FALSE, failed |-> FALSE]
         ELSE [e |-> e, heap |-> hp, ret |-> e.httpString_, syserr |-> FALSE, failed |-> FALSE]
    ELSE fullRender(e, hp, t)

\* HttpResponseImpl::renderToString at time t with the strings hp: the entity and
\* the strings after it and the string returned; failed when assert(httpString_) fails
renderToString(e, hp, t) ==
    IF e.expriedTime_ >= 0 /\ sendDate /\ e.datePos_ # npos
    THEN IF e.httpString_ = 0
         THEN [e |-> e, heap |-> hp, ret |-> 0, syserr |-> FALSE, failed |-> TRUE]
         ELSE IF SecondOf(t) # e.httpStringDate_
         THEN LET id == Len(hp) + 1 IN
              [e |-> [e EXCEPT !.httpStringDate_ = SecondOf(t), !.httpString_ = id],
               heap |-> Append(hp, patchDate(hp[e.httpString_], e.datePos_, getHttpFullDate(t))),
               ret |-> id, syserr |-> FALSE, failed |-> FALSE]
         ELSE [e |-> e, heap |-> hp, ret |-> e.httpString_, syserr |-> FALSE, failed |-> FALSE]
    ELSE IF e.expriedTime_ >= 0 /\ ~sendDate /\ e.httpString_ # 0
    THEN [e |-> e, heap |-> hp, ret |-> e.httpString_, syserr |-> FALSE, failed |-> FALSE]
    ELSE fullRender(e, hp, t)

\* lines 274-333: the header block renderToBuffer writes when none is prebuilt
bufferHeader(e) ==
    LET e1 == generateBodyFromJson(e) IN
    IF e1.sendfileName_ = <<>>
    THEN [e |-> e1, syserr |-> FALSE,
          out |-> statusLine(e1) \o StrContentLength \o Dec(bodyLength(e1)) \o StrCRLF
                    \o connectionLine(e1) \o e1.contentTypeString_
                    \o headerLines(e1.headers_) \o serverLine]
    ELSE IF ~fileOk
    THEN [e |-> e1, syserr |-> TRUE, out |-> statusLine(e1)]
    ELSE [e |-> e1, syserr |-> FALSE,
          out |-> statusLine(e1) \o StrContentLength \o Dec(FileSize) \o StrCRLF
                    \o connectionLine(e1) \o e1.contentTypeString_
                    \o headerLines(e1.headers_) \o serverLine]

\* HttpResponseImpl::renderToBuffer: the entity and the strings after it and the
\* bytes appended to the buffer
renderToBuffer(e, hp, t) ==
    IF e.expriedTime_ >= 0
    THEN LET r == renderToString(e, hp, t) IN
         [e |-> r.e, heap |-> r.heap, syserr |-> r.syserr, failed |-> r.failed,
          out |-> IF r.failed THEN <<>> ELSE r.heap[r.ret]]
    ELSE LET hdr == IF e.fullHeaderString_ = Null THEN bufferHeader(e)
                    ELSE [e |-> e, syserr |-> FALSE, out |-> e.fullHeaderString_[1]]
         IN IF hdr.syserr
            THEN [e |-> hdr.e, heap |-> hp, syserr |-> TRUE, failed |-> FALSE, out |-> hdr.out]
            ELSE [e |-> hdr.e, heap |-> hp, syserr |-> FALSE, failed |-> FALSE,
                  out |-> hdr.out \o cookieLines(hdr.e.cookies_) \o dateLines(t)
                            \o bodyBytes(hdr.e)]

\* HttpResponseImpl::renderHeaderForHeadMethod
renderHeaderForHeadMethod(e, t) ==
    LET hdr == IF e.fullHeaderString_ = Null THEN makeHeaderString(e)
               ELSE [e |-> e, syserr |-> FALSE, out |-> e.fullHeaderString_[1]]
    IN [e |-> hdr.e, syserr |-> hdr.syserr,
        out |-> hdr.out \o cookieLines(hdr.e.cookies_) \o dateLines(t)]

\* addHeader(start, colon, end) with the test of line 503 made on the name as it
\* is written, while the table key stays the lower-cased name
addHeaderExactCase(e, line, colon) ==
    LET field == ToLowerStr(SubSeq(line, 1, colon))
        value == TrimRight(Substr(line, SkipSpaces(line, colon + 1)))
        e1 == [e EXCEPT !.fullHeaderString_ = Null]
    IN IF SubSeq(line, 1, colon) = StrSetCookieKey
       THEN LET cookie == ParseCookie(splitString(value, ";"), 0, NewCookie) IN
            IF cookie.key_ # <<>>
            THEN [e1 EXCEPT !.cookies_ = Put(e1.cookies_, cookie.key_, cookie)]
            ELSE e1
       ELSE [e1 EXCEPT !.headers_ = Put(e1.headers_, field, value)]

\* HttpResponseImpl::addHeader(start, colon, end): line is [start, end) and colon
\* the 0-based place of the colon in it
addHeader(e, line, colon) ==
    LET field == ToLowerStr(SubSeq(line, 1, colon))
        value == TrimRight(Substr(line, SkipSpaces(line, colon + 1)))
        e1 == [e EXCEPT !.fullHeaderString_ = Null]
    IN IF field = StrSetCookieKey
       THEN LET cookie == ParseCookie(splitString(value, ";"), 0, NewCookie) IN
            IF cookie.key_ # <<>>
            THEN [e1 EXCEPT !.cookies_ = Put(e1.cookies_, cookie.key_, cookie)]
            ELSE e1
       ELSE [e1 EXCEPT !.headers_ = Put(e1.headers_, field, value)]

\* --------------------------------------------------- builders of entities

\* setStatusCode(code): the code and its reason phrase
setStatusCode(e, code, message) == [e EXCEPT !.statusCode_ = code, !.statusMessage_ = message]

\* setBody(std::string): an owned byte body
setBody(e, body) == [e EXCEPT !.bodyPtr_ = Some(body)]

\* a body that is a view into bytes owned elsewhere
setViewBody(e, body) == [e EXCEPT !.bodyViewPtr_ = Some(body)]

\* setJsonObject(json): a JSON tree, serialized at render time
setJsonObject(e, json) == [e EXCEPT !.jsonPtr_ = Some(json)]

\* setSendfile(path)
setSendfile(e, path) == [e EXCEPT !.sendfileName_ = path]

\* the creator's mark: Cacheable when expiredTime >= 0
setExpiredTime(e, expiredTime) == [e EXCEPT !.expriedTime_ = expiredTime]

\* setCloseConnection(on)
setCloseConnection(e, on) == [e EXCEPT !.closeConnection_ = on]

\* HttpResponse::newHttpResponse
newHttpResponse == NewResponse(200, StrOK, StrCTHtml)

\* HttpResponse::newHttpJsonResponse
newHttpJsonResponse(json) == setJsonObject(NewResponse(200, StrOK, StrCTJson), json)

\* genHttpResponse when the template exists, its text being body
genHttpResponse(body) == setBody(newHttpResponse, body)

\* the page the initializer of thread404Pages builds (lines 110-115)
NotFoundPage == setExpiredTime(setStatusCode(genHttpResponse(StrBody404), 404, StrNotFound), 0)

\* the bytes of a file of the given size
FileContent(filesize) == [i \in 1..filesize |-> "x"]

\* resp->addHeader("Content-Disposition", "attachment; filename=" + name)
addDisposition(e, attachmentFileName) ==
    [e EXCEPT !.fullHeaderString_ = Null,
              !.headers_ = Put(e.headers_, StrContentDispositionKey,
                               StrAttachment \o attachmentFileName)]

\* newFileResponse with the file handed to sendfile from the limit itself on
newFileResponseAtLeast(useSendfile, filesize, attachmentFileName, ctString) ==
    LET r0 == NewResponse(200, StrOK, ctString)
        r1 == IF useSendfile /\ filesize >= SendfileLimit
              THEN setSendfile(r0, StrFile)
              ELSE setBody(r0, FileContent(filesize))
    IN IF attachmentFileName # <<>> THEN addDisposition(r1, attachmentFileName) ELSE r1

\* HttpResponse::newFileResponse of a readable file of the given size at path
\* "/f", with useSendfile() as given and the content type resolved to ctString
newFileResponse(useSendfile, filesize, attachmentFileName, ctString) ==
    LET r0 == NewResponse(200, StrOK, ctString)
        r1 == IF useSendfile /\ filesize > SendfileLimit
              THEN setSendfile(r0, StrFile)
              ELSE setBody(r0, FileContent(filesize))
    IN IF attachmentFileName # <<>> THEN addDisposition(r1, attachmentFileName) ELSE r1

\* the response for a readable file larger than 200 KiB, sendfile on
LargeFileResponse == newFileResponse(TRUE, FileSize, <<>>, StrCTPlain)

\* the spec's end-to-end scenario: 200 OK, body "hi", text/plain
PlainHi == setBody(NewResponse(200, StrOK, StrCTPlain), StrBodyHi)

\* the entities the render specification starts from
BaseResponses ==
    {newHttpResponse, PlainHi, newHttpJsonResponse(7), LargeFileResponse,
     setViewBody(newHttpResponse, StrBodyHi)}

\* the header lines a parsed upstream response feeds to addHeader
HeaderLines == {LineConnection, LineContentType, LineXTag, LineCookie}
CacheLines == {LineXTag, LineCookie}

NoInput == [kind |-> "none"]

NoCall == [op |-> "none", ret |-> 0, out |-> <<>>, syserr |-> FALSE, failed |-> FALSE]

\* ---------------------------------------------------------------- Init

InitNF ==
    /\ custom404 = 0
    /\ templ = TRUE
    /\ pages = <<>>
    /\ objs = 0
    /\ handed = <<>>
    /\ stuck = {}

InitEnv ==
    /\ heap = <<>>
    /\ clock = 0
    /\ fileOk = TRUE
    /\ sendDate \in BOOLEAN
    /\ sendServer \in BOOLEAN
    /\ last = NoCall
    /\ returned = <<>>
    /\ other = newHttpResponse
    /\ lifeOps = 0
    /\ input = NoInput

\* the not-found page right after its creation, marked Cacheable or left as it is
Init ==
    /\ resp \in {NotFoundPage, setExpiredTime(NotFoundPage, -1)}
    /\ InitEnv
    /\ InitNF

\* any of the factories' entities, Cacheable or not
InitRender ==
    /\ resp \in {setExpiredTime(b, x) : b \in BaseResponses, x \in {-1, 0}}
    /\ InitEnv
    /\ InitNF

\* -------------------------------------------------------------- actions

\* the clock advances
Tick ==
    /\ clock < MaxClock
    /\ clock' = clock + 1
    /\ UNCHANGED <<resp, heap, fileOk, sendDate, sendServer, last, returned>>
    /\ UNCHANGED <<nfVars, auxVars>>

\* the file of a sendfile body disappears, or comes back
FileChange ==
    /\ resp.sendfileName_ # <<>>
    /\ fileOk' = ~fileOk
    /\ UNCHANGED <<resp, heap, clock, sendDate, sendServer, last, returned>>
    /\ UNCHANGED <<nfVars, auxVars>>

RenderToString ==
    /\ Len(heap) < MaxRenders
    /\ Len(returned) < MaxRenders
    /\ LET r == renderToString(resp, heap, clock) IN
        /\ resp' = r.e
        /\ heap' = r.heap
        /\ last' = [op |-> "renderToString", ret |-> r.ret,
                    out |-> IF r.failed THEN <<>> ELSE r.heap[r.ret],
                    syserr |-> r.syserr, failed |-> r.failed]
        /\ returned' = IF r.failed THEN returned
                       ELSE Append(returned, [sec |-> SecondOf(clock), id |-> r.ret])
    /\ UNCHANGED <<clock, fileOk, sendDate, sendServer>>
    /\ UNCHANGED <<nfVars, auxVars>>

RenderToBuffer ==
    /\ Len(heap) < MaxRenders
    /\ LET r == renderToBuffer(resp, heap, clock) IN
        /\ resp' = r.e
        /\ heap' = r.heap
        /\ last' = [op |-> "renderToBuffer", ret |-> 0, out |-> r.out,
                    syserr |-> r.syserr, failed |-> r.failed]
    /\ UNCHANGED <<clock, fileOk, sendDate, sendServer, returned>>
    /\ UNCHANGED <<nfVars, auxVars>>

RenderHeaderForHeadMethod ==
    /\ LET r == renderHeaderForHeadMethod(resp, clock) IN
        /\ resp' = r.e
        /\ last' = [op |-> "renderHeaderForHeadMethod", ret |-> 0, out |-> r.out,
                    syserr |-> r.syserr, failed |-> FALSE]
    /\ UNCHANGED <<heap, clock, fileOk, sendDate, sendServer, returned>>
    /\ UNCHANGED <<nfVars, auxVars>>

AddHeader(line) ==
    /\ resp' = addHeader(resp, line, Find(line, ":"))
    /\ last' = [NoCall EXCEPT !.op = "addHeader"]
    /\ UNCHANGED <<heap, clock, fileOk, sendDate, sendServer, returned>>
    /\ UNCHANGED <<nfVars, auxVars>>

SetCloseConnection ==
    /\ resp' = setCloseConnection(resp, ~resp.closeConnection_)
    /\ last' = [NoCall EXCEPT !.op = "setCloseConnection"]
    /\ UNCHANGED <<heap, clock, fileOk, sendDate, sendServer, returned>>
    /\ UNCHANGED <<nfVars, auxVars>>

\* makeHeaderString(): the header block is built once and kept in fullHeaderString_
MakeHeaderString ==
    /\ LET r == makeHeaderString(resp) IN
        /\ resp' = [r.e EXCEPT !.fullHeaderString_ = Some(r.out)]
        /\ last' = [NoCall EXCEPT !.op = "makeHeaderString", !.syserr = r.syserr]
    /\ UNCHANGED <<heap, clock, fileOk, sendDate, sendServer, returned>>
    /\ UNCHANGED <<nfVars, auxVars>>

\* the render cache of one Cacheable entity over time
Next ==
    \/ Tick
    \/ RenderToString
    \/ RenderToBuffer
    \/ \E line \in CacheLines : AddHeader(line)

Spec == Init /\ [][Next]_vars

\* every renderer on every kind of entity; the builder calls come before the
\* entity is first rendered to a string
NextRender ==
    \/ RenderToString
    \/ RenderToBuffer
    \/ RenderHeaderForHeadMethod
    \/ heap = <<>> /\ \E line \in HeaderLines : AddHeader(line)
    \/ heap = <<>> /\ SetCloseConnection
    \/ heap = <<>> /\ MakeHeaderString
    \/ heap = <<>> /\ FileChange

SpecRender == InitRender /\ [][NextRender]_vars

\* ------------------------------------------------ the not-found factory

\* An execution context is the index of its event loop, or -1 for a thread
\* that runs no loop; the IO loops are 0 .. ThreadNum-1 and loop ThreadNum is
\* one more loop of the process outside the pool.
Contexts == -1..ThreadNum

\* loop && loop->index() < app().getThreadNum()
IsIOThread(ctx) == ctx >= 0 /\ ctx < ThreadNum

\* IOThreadStorage::init with the initializer of lines 108-116: one new page per
\* IO loop, the instances n+1 .. n+ThreadNum
thread404PagesInit(n) == [i \in 1..ThreadNum |-> n + i]

\* IOThreadStorage::getThreadData on the loop of index ctx
getThreadData(pg, ctx) == pg[ctx + 1]

\* the custom page handed out as it is to every caller, without the copy of line 96
newNotFoundResponseShared(ctx, c404, pg, n) ==
    IF c404 # 0
    THEN [inst |-> c404, pages |-> pg, objs |-> n]
    ELSE IF IsIOThread(ctx)
         THEN LET first == pg = <<>>
                  pg1 == IF first THEN thread404PagesInit(n) ELSE pg
              IN [inst |-> getThreadData(pg1, ctx), pages |-> pg1,
                  objs |-> IF first THEN n + ThreadNum ELSE n]
         ELSE [inst |-> n + 1, pages |-> pg, objs |-> n + 1]

\* HttpResponse::newNotFoundResponse when it returns: the instance returned, and
\* thread404Pages and the number of instances after the call
newNotFoundResponse(ctx, c404, pg, n) ==
    IF c404 # 0
    THEN IF IsIOThread(ctx)
         THEN [inst |-> c404, pages |-> pg, objs |-> n]
         ELSE [inst |-> n + 1, pages |-> pg, objs |-> n + 1]
    ELSE IF IsIOThread(ctx)
         THEN LET first == pg = <<>>
                  pg1 == IF first THEN thread404PagesInit(n) ELSE pg
              IN [inst |-> getThreadData(pg1, ctx), pages |-> pg1,
                  objs |-> IF first THEN n + ThreadNum ELSE n]
         ELSE [inst |-> n + 1, pages |-> pg, objs |-> n + 1]

\* the server's configuration: a custom 404 page or none, the view compiled in or not
InitNotFound ==
    /\ resp = NotFoundPage
    /\ heap = <<>>
    /\ clock = 0
    /\ fileOk = TRUE
    /\ sendDate = TRUE
    /\ sendServer = TRUE
    /\ last = NoCall
    /\ returned = <<>>
    /\ custom404 \in {0, 1}
    /\ objs = custom404
    /\ templ \in BOOLEAN
    /\ pages = <<>>
    /\ handed = <<>>
    /\ stuck = {}
    /\ other = newHttpResponse
    /\ lifeOps = 0
    /\ input = NoInput

\* How a call of newNotFoundResponse from context ctx ends, followed through
\* newHttpViewResponse, genHttpResponse (lines 33-46) and the call of line 45:
\* depth counts the frames of newNotFoundResponse on the thread's stack, which
\* holds StackLimit of them, and inOnce tells that the thread is inside the
\* callable of call_once (lines 102-117). "returns": a response is returned;
\* "overflow": the stack is exhausted; "reentered": call_once is entered again
\* from its own callable, which is undefined: the thread blocks on the flag it
\* holds, or runs the callable again and ends as "overflow"; it never returns.
RECURSIVE notFoundOutcome(_, _, _, _, _)
notFoundOutcome(ctx, c404, pg, inOnce, depth) ==
    IF depth > StackLimit THEN "overflow"
    ELSE IF c404 # 0 THEN "returns"
    ELSE IF IsIOThread(ctx) /\ pg # <<>> THEN "returns"
    ELSE IF IsIOThread(ctx) /\ inOnce THEN "reentered"
    ELSE IF templ THEN "returns"
    ELSE notFoundOutcome(ctx, c404, pg, IsIOThread(ctx), depth + 1)

\* a call of newNotFoundResponse from context ctx that returns
NotFoundCall(ctx) ==
    /\ ctx \notin stuck
    /\ Len(handed) < MaxCalls
    /\ notFoundOutcome(ctx, custom404, pages, FALSE, 1) = "returns"
    /\ LET r == newNotFoundResponse(ctx, custom404, pages, objs) IN
        /\ pages' = r.pages
        /\ objs' = r.objs
        /\ handed' = Append(handed, [ctx |-> ctx, inst |-> r.inst])
    /\ UNCHANGED <<custom404, templ, stuck>>
    /\ UNCHANGED <<respVars, auxVars>>

\* a call of newNotFoundResponse from context ctx that does not return: without
\* a custom page and without the view, genHttpResponse (line 45) calls
\* newNotFoundResponse again, inside call_once on an IO thread
NotFoundDiverge(ctx) ==
    /\ ctx \notin stuck
    /\ notFoundOutcome(ctx, custom404, pages, FALSE, 1) # "returns"
    /\ stuck' = stuck \cup {ctx}
    /\ UNCHANGED <<custom404, templ, pages, objs, handed>>
    /\ UNCHANGED <<respVars, auxVars>>

NextNotFound ==
    \/ \E ctx \in Contexts : NotFoundCall(ctx)
    \/ \E ctx \in Contexts : NotFoundDiverge(ctx)

SpecNotFound == InitNotFound /\ [][NextNotFound]_vars

\* ------------------------------------------------ reading a rendered output

RenderOps == {"renderToString", "renderToBuffer", "renderHeaderForHeadMethod"}

\* the 0-based place of the first CRLF of s, npos when there is none
FindCRLF(s) ==
    IF \E i \in 1..(Len(s) - 1) : s[i] = "\r" /\ s[i + 1] = "\n"
    THEN (CHOOSE i \in 1..(Len(s) - 1) :
              /\ s[i] = "\r" /\ s[i + 1] = "\n"
              /\ \A j \in 1..(i - 1) : ~(s[j] = "\r" /\ s[j + 1] = "\n")) - 1
    ELSE npos

\* the lines of the header block of s: up to the blank line, without their CRLF
RECURSIVE LinesOf(_)
LinesOf(s) ==
    LET p == FindCRLF(s) IN
    IF p = npos \/ p = 0 THEN <<>>
    ELSE <<SubSeq(s, 1, p)>> \o LinesOf(Substr(s, p + 2))

\* the lower-cased name of a header line, empty for a line without a colon
NameOfLine(l) == IF Find(l, ":") = npos THEN <<>> ELSE ToLowerStr(SubSeq(l, 1, Find(l, ":")))

\* what follows ": " in a header line
ValueOfLine(l) == Substr(l, Find(l, ":") + 2)

\* the places of the lines of s named name
LinesNamed(s, name) == {i \in 1..Len(LinesOf(s)) : NameOfLine(LinesOf(s)[i]) = name}

\* the value the header table holds for key
ValueOfKey(m, key) == m[CHOOSE i \in 1..Len(m) : m[i].k = key].v

\* the latest call was a render that built its header block from the entity as it is now
FreshRender ==
    /\ last.op \in RenderOps
    /\ ~last.failed
    /\ ~last.syserr
    /\ resp.fullHeaderString_ = Null

\* s and t have the same length and agree outside the date field at offset pos
SameOutsideDate(s, t, pos) ==
    /\ Len(s) = Len(t)
    /\ \A k \in 1..Len(s) :
          (k <= pos \/ k > pos + httpFullDateStringLength) => s[k] = t[k]

\* ----------------------------------------------------------------- claims

\* C1: for a Cacheable entity with the Date header on, any two renderToString
\* calls in the same clock second, the first render included, return the same
\* buffer object with the same bytes.
C1Claim ==
    (resp.expriedTime_ >= 0 /\ sendDate) =>
        \A i, j \in 1..Len(returned) :
            returned[i].sec = returned[j].sec =>
                /\ returned[i].id = returned[j].id
                /\ heap[returned[i].id] = heap[returned[j].id]

\* C2: for a Cacheable entity with frozen bytes and a recorded date offset, a
\* renderToString call in a later second than the previous one returns a buffer
\* of the same length that differs from the previous one at most in the 29
\* bytes at the recorded offset.
C2Theorem ==
    (resp.expriedTime_ >= 0 /\ resp.datePos_ # npos) =>
        \A i \in 1..(Len(returned) - 1) :
            returned[i + 1].sec > returned[i].sec =>
                SameOutsideDate(heap[returned[i].id], heap[returned[i + 1].id],
                                resp.datePos_)

\* C2's case: a render in a later second returned a buffer with another date
C2Witness ==
    /\ resp.expriedTime_ >= 0 /\ resp.datePos_ # npos
    /\ \E i \in 1..(Len(returned) - 1) :
          /\ returned[i + 1].sec > returned[i].sec
          /\ heap[returned[i].id] # heap[returned[i + 1].id]

\* C3: no step changes the bytes of a string that exists already; a date patch
\* writes a new string and makes httpString_ point at it.
C3Theorem ==
    [][/\ Len(heap') >= Len(heap)
       /\ \A id \in 1..Len(heap) : heap'[id] = heap[id]
       /\ (resp'.httpString_ # resp.httpString_ => resp'.httpString_ > Len(heap))]_vars

\* C3's case: the frozen string was patched while an older returned buffer is held
C3Witness ==
    /\ resp.httpString_ # 0
    /\ \E i \in 1..Len(returned) :
          /\ returned[i].id # resp.httpString_
          /\ heap[returned[i].id] # heap[resp.httpString_]

\* C4: a render of a Cacheable entity shows every header and cookie the line
\* parser has inserted, also those inserted after the bytes were frozen.
C4Claim ==
    (last.op \in {"renderToString", "renderToBuffer"} /\ ~last.failed
        /\ resp.expriedTime_ >= 0) =>
        /\ \A i \in 1..Len(resp.headers_) :
              Contains(last.out, resp.headers_[i].k \o StrColonSp
                                   \o resp.headers_[i].v \o StrCRLF)
        /\ \A i \in 1..Len(resp.cookies_) :
              Contains(last.out, cookieString(resp.cookies_[i].v))

\* C5: without a custom 404 page every call from an IO thread returns that
\* thread's one memoized page; a call from outside the pool returns neither a
\* memoized page nor the custom page.
C5Theorem ==
    \A i \in 1..Len(handed) :
        /\ (custom404 = 0 /\ IsIOThread(handed[i].ctx)) =>
              /\ pages # <<>>
              /\ handed[i].inst = pages[handed[i].ctx + 1]
        /\ ~IsIOThread(handed[i].ctx) =>
              /\ handed[i].inst # custom404
              /\ \A k \in 1..Len(pages) : handed[i].inst # pages[k]
              /\ \A j \in 1..Len(handed) : j # i => handed[j].inst # handed[i].inst

\* C5's case: an IO thread called twice, and a context outside the pool called
C5Witness ==
    /\ custom404 = 0
    /\ \E i, j \in 1..Len(handed) :
          i < j /\ handed[i].ctx = handed[j].ctx /\ IsIOThread(handed[i].ctx)
    /\ \E i \in 1..Len(handed) : ~IsIOThread(handed[i].ctx)

\* C6: no instance is handed to two different execution contexts.
C6Claim ==
    \A i, j \in 1..Len(handed) :
        handed[i].inst = handed[j].inst => handed[i].ctx = handed[j].ctx

\* C7: from every state of the entity, renderToBuffer appends to an empty
\* buffer exactly the bytes of the string renderToString returns.
C7Claim ==
    LET b == renderToBuffer(resp, heap, clock)
        s == renderToString(resp, heap, clock)
    IN /\ b.failed = s.failed
       /\ ~s.failed => b.out = s.heap[s.ret]

\* C8: a render whose stat of the file fails gives its caller no bytes and
\* stores no frozen bytes.
C8Claim ==
    (last.op \in RenderOps /\ last.syserr) =>
        /\ last.out = <<>>
        /\ resp.httpString_ = 0

\* C9: a rendered header block holds "Connection: close" exactly when the
\* entity asks to close and the table holds no Connection header; with a
\* Connection header in the table there is one Connection line, the table's.
C9Claim ==
    FreshRender =>
        LET explicit == HasKey(resp.headers_, StrConnectionKey) IN
        /\ Contains(last.out, StrConnectionClose)
              <=> (resp.closeConnection_ /\ ~explicit)
        /\ explicit =>
              /\ Cardinality(LinesNamed(last.out, StrConnectionKey)) = 1
              /\ \A i \in LinesNamed(last.out, StrConnectionKey) :
                    ValueOfLine(LinesOf(last.out)[i])
                        = ValueOfKey(resp.headers_, StrConnectionKey)

\* C10: once a Content-Type header was added after the typed content type, a
\* rendered output holds one Content-Type line, with the added value.
C10Claim ==
    (FreshRender /\ resp.contentTypeString_ # <<>>
        /\ HasKey(resp.headers_, StrContentTypeKey)) =>
        /\ Cardinality(LinesNamed(last.out, StrContentTypeKey)) = 1
        /\ \A i \in LinesNamed(last.out, StrContentTypeKey) :
              ValueOfLine(LinesOf(last.out)[i])
                  = ValueOfKey(resp.headers_, StrContentTypeKey)

\* ------------------------------------------------------ the line parser

MaxParses == 3
MaxAttrs == 4

StrSetCookieName == <<"S","e","t","-","C","o","o","k","i","e">>
LineCookieUpper == <<"S","E","T","-","C","O","O","K","I","E",":"," ","b","=","2">>
LineCookieMixed == <<"s","E","t","-","C","o","O","k","I","e",":","c","=","3",";"," ","H","t","t","p","O","n","l","y">>
LineCookieEmpty == <<"s","e","t","-","c","o","o","k","i","e",":"," "," "," ">>
LineCookiePadded == <<"S","e","t","-","C","o","o","k","i","e",":"," "," ","a"," ","="," ","1"," ",";"," ","P","a","t","h","=","/","x">>
LineCookie2 == <<"S","e","t","-","C","o","o","k","i","e","2",":"," ","z">>
LineCookieSpaced == <<"S","e","t","-","C","o","o","k","i","e"," ",":"," ","d","=","4">>
LineCookieOld == <<"S","e","t","-","C","o","o","k","i","e",":"," ","a","=","0",";"," ","P","a","t","h","=","/","o","l","d",";"," ","D","o","m","a","i","n","=","o","l","d",".","e",";"," ","S","e","c","u","r","e",";"," ","H","t","t","p","O","n","l","y",";"," ","E","x","p","i","r","e","s","=","F","r","i",","," ","2","3"," ","A","u","g"," ","2","0","1","9"," ","1","2",":","0","0",":","0","0"," ","G","M","T">>
StrKeyA == <<"a">>
StrKeyB == <<"b">>
StrVal1 == <<"1">>
StrVal2 == <<"2">>
StrAttrPath == <<"P","a","t","h">>
StrAttrDomain == <<"D","o","m","a","i","n">>
StrAttrSecure == <<"S","e","c","u","r","e">>
StrAttrHttpOnly == <<"H","t","t","p","O","n","l","y">>
StrAttrMaxAge == <<"M","a","x","-","A","g","e">>
StrValPath == <<"/","x">>
StrValDomain == <<"d",".","e">>
StrValMaxAge == <<"9">>
StrSemiSp == <<";"," ">>

\* ::toupper on one character and over a string
toupper(c) ==
    IF \E i \in 1..26 : LowerCase[i] = c
    THEN UpperCase[CHOOSE i \in 1..26 : LowerCase[i] = c]
    ELSE c

ToUpperStr(s) == [i \in 1..Len(s) |-> toupper(s[i])]

\* a name in one of three letter cases: as written, upper, lower
Cased(s, style) ==
    IF style = "upper" THEN ToUpperStr(s)
    ELSE IF style = "lower" THEN ToLowerStr(s)
    ELSE s

\* the attributes a Set-Cookie line may carry after its first segment; Max-Age is
\* one the parser does not know
AttrPath == [name |-> StrAttrPath, value |-> StrValPath]
AttrDomain == [name |-> StrAttrDomain, value |-> StrValDomain]
AttrSecure == [name |-> StrAttrSecure, value |-> <<>>]
AttrHttpOnly == [name |-> StrAttrHttpOnly, value |-> <<>>]
AttrMaxAge == [name |-> StrAttrMaxAge, value |-> StrValMaxAge]
CookieAttrs == {AttrPath, AttrDomain, AttrSecure, AttrHttpOnly, AttrMaxAge}

\* the sequences of at most n distinct members of S
RECURSIVE SeqsOfDistinct(_, _)
SeqsOfDistinct(S, n) ==
    IF n = 0 THEN {<<>>}
    ELSE LET shorter == SeqsOfDistinct(S, n - 1) IN
         shorter \cup {Append(p[1], p[2]) :
                          p \in {q \in shorter \X S :
                                    \A i \in 1..Len(q[1]) : q[1][i] # q[2]}}

\* "; Name" or "; Name=value" for each attribute, the names in the given letter case
RECURSIVE AttrText(_, _)
AttrText(attrs, style) ==
    IF attrs = <<>> THEN <<>>
    ELSE StrSemiSp \o Cased(attrs[1].name, style)
             \o (IF attrs[1].value # <<>> THEN <<"=">> \o attrs[1].value ELSE <<>>)
             \o AttrText(Tail(attrs), style)

\* a Set-Cookie header line as a server writes it: "Set-Cookie: k=v; Attr; Attr=x"
CookieLine(key, value, attrs, style) ==
    Cased(StrSetCookieName, style) \o StrColonSp \o key \o <<"=">> \o value
        \o AttrText(attrs, style)

\* a Set-Cookie line with what it was composed from
CookieInput(key, value, attrs, style) ==
    [kind |-> "cookie", line |-> CookieLine(key, value, attrs, style),
     key |-> key, value |-> value, attrs |-> attrs, style |-> style]

CookieInputs ==
    {CookieInput(kv[1], kv[2], attrs, style) :
        kv \in {<<StrKeyA, StrVal1>>, <<StrKeyB, StrVal2>>},
        attrs \in SeqsOfDistinct(CookieAttrs, MaxAttrs),
        style \in {"asis", "upper", "lower"}}

\* any other header line
LineInput(line) == [kind |-> "line", line |-> line]

\* the lines of the parser specification: Set-Cookie in several letter cases,
\* with padding, with no cookie in it, names that only resemble Set-Cookie, and
\* two ordinary headers
ParseLines ==
    {LineCookie, LineCookieUpper, LineCookieMixed, LineCookieEmpty, LineCookiePadded,
     LineCookie2, LineCookieSpaced, LineXTag, LineConnection}

\* one header line of a response being parsed is handed to addHeader; the caller
\* has located the colon
ParseHeaderLine(in) ==
    /\ resp' = addHeader(resp, in.line, Find(in.line, ":"))
    /\ input' = in
    /\ last' = [NoCall EXCEPT !.op = "addHeader"]
    /\ UNCHANGED <<heap, clock, fileOk, sendDate, sendServer, returned, other, lifeOps>>
    /\ UNCHANGED nfVars

\* a response parsed from its header lines, at most MaxParses table entries long
InitParse ==
    /\ resp = newHttpResponse
    /\ InitEnv
    /\ InitNF

NextParse ==
    \/ /\ Len(resp.headers_) + Len(resp.cookies_) < MaxParses
       /\ \E line \in ParseLines : ParseHeaderLine(LineInput(line))
    \/ RenderHeaderForHeadMethod

SpecParse == InitParse /\ [][NextParse]_vars

\* one Set-Cookie line parsed into a jar that is empty or holds an older cookie
\* of key "a" with every attribute set
InitCookie ==
    /\ resp \in {newHttpResponse,
                  addHeader(newHttpResponse, LineCookieOld, Find(LineCookieOld, ":"))}
    /\ InitEnv
    /\ InitNF

NextCookie ==
    /\ input = NoInput
    /\ \E in \in CookieInputs : ParseHeaderLine(in)

SpecCookie == InitCookie /\ [][NextCookie]_vars

\* ----------------------------------------------------- claims C11, C15, C17

\* C11: whatever the letter case of the names in the lines handed to the line
\* parser, the header table never holds the key "set-cookie", the generic header
\* loop never writes a line of that name, and a Set-Cookie line leaves the
\* header table as it was.
C11Theorem ==
    [][/\ ~HasKey(resp'.headers_, StrSetCookieKey)
       /\ LinesNamed(headerLines(resp'.headers_), StrSetCookieKey) = {}
       /\ \A line \in ParseLines :
              (NameOfLine(line) = StrSetCookieKey /\ ParseHeaderLine(LineInput(line)))
                  => resp'.headers_ = resp.headers_]_vars

\* an upper-case SET-COOKIE line was parsed into a response that holds headers
C11Witness ==
    /\ last.op = "addHeader"
    /\ input = LineInput(LineCookieUpper)
    /\ HasKey(resp.cookies_, StrKeyB)
    /\ resp.headers_ # <<>>

\* whether the attribute a is among those the parsed line was composed from
InputHas(a) == \E i \in 1..Len(input.attrs) : input.attrs[i] = a

\* C15: after a Set-Cookie line "k=v" followed by attributes among Path, Domain,
\* Secure, HttpOnly in any order and letter case, the jar holds under k exactly
\* one cookie, of value v, with the given path and domain, with each flag true
\* exactly when its attribute was present, and nothing of an unknown attribute
\* or of an older cookie of the same key.
C15Theorem ==
    (last.op = "addHeader" /\ input.kind = "cookie") =>
        /\ Cardinality({i \in 1..Len(resp.cookies_) : resp.cookies_[i].k = input.key}) = 1
        /\ ValueOfKey(resp.cookies_, input.key) =
               [key_ |-> input.key, value_ |-> input.value,
                path_ |-> IF InputHas(AttrPath) THEN StrValPath ELSE <<>>,
                domain_ |-> IF InputHas(AttrDomain) THEN StrValDomain ELSE <<>>,
                expires_ |-> Null,
                secure_ |-> InputHas(AttrSecure),
                httpOnly_ |-> InputHas(AttrHttpOnly)]

\* an upper-case line with HttpOnly before an unknown attribute and Path was parsed
C15Witness ==
    /\ last.op = "addHeader"
    /\ input = CookieInput(StrKeyA, StrVal1, <<AttrHttpOnly, AttrMaxAge, AttrPath>>, "upper")
    /\ Len(resp.cookies_) = 1
    /\ resp.cookies_[1].v.httpOnly_
    /\ ~resp.cookies_[1].v.secure_

\* s neither starts nor ends with white space
Trimmed(s) == s = <<>> \/ (~isspace(s[1]) /\ ~isspace(s[Len(s)]))

\* C17: every cookie of the jar has a key and a value without leading or
\* trailing white space; the first segment " a = 1 " is stored as "a" and "1".
C17Claim ==
    /\ \A i \in 1..Len(resp.cookies_) :
           Trimmed(resp.cookies_[i].v.key_) /\ Trimmed(resp.cookies_[i].v.value_)
    /\ (last.op = "addHeader" /\ input = LineInput(LineCookiePadded)) =>
           /\ HasKey(resp.cookies_, StrKeyA)
           /\ ValueOfKey(resp.cookies_, StrKeyA).value_ = StrVal1

\* ------------------------------------------------------------ claim C12

StrBlankLine == <<"\r","\n","\r","\n">>

\* the 0-based place of the first blank line (CRLF CRLF) of s, npos when none
FindBlankLine(s) ==
    IF Contains(s, StrBlankLine)
    THEN (CHOOSE i \in 1..Len(s) :
              OccursAt(s, StrBlankLine, i)
                  /\ \A j \in 1..(i - 1) : ~OccursAt(s, StrBlankLine, j)) - 1
    ELSE npos

\* the bytes of s after its first blank line
BodyOf(s) == Substr(s, FindBlankLine(s) + Len(StrBlankLine))

\* the header lines among ls that start with "Content-Length: "
ContentLengthLines(ls) == {i \in 1..Len(ls) : OccursAt(ls[i], StrContentLength, 1)}

\* entities without a file path: no body, an owned body, a borrowed view, JSON
LengthResponses ==
    {newHttpResponse, PlainHi, newHttpJsonResponse(7),
     setViewBody(newHttpResponse, StrBodyHi)}

InitLength ==
    /\ resp \in {setExpiredTime(b, x) : b \in LengthResponses, x \in {-1, 0}}
    /\ InitEnv
    /\ InitNF

\* the header block may be prebuilt and a header added before the first render;
\* renders follow as time passes
NextLength ==
    \/ Tick
    \/ RenderToString
    \/ RenderToBuffer
    \/ heap = <<>> /\ MakeHeaderString
    \/ heap = <<>> /\ AddHeader(LineXTag)

SpecLength == InitLength /\ [][NextLength]_vars

\* C12: when no file path is set, every output of renderToString and of
\* renderToBuffer (built from the entity, from the prebuilt header block, or
\* returned from the frozen bytes) has one Content-Length line, and its value is
\* the decimal count of the bytes after the blank line.
C12Theorem ==
    (last.op \in {"renderToString", "renderToBuffer"} /\ ~last.failed
        /\ resp.sendfileName_ = <<>>) =>
        LET ls == LinesOf(last.out)
            cl == ContentLengthLines(ls)
        IN /\ FindBlankLine(last.out) # npos
           /\ Cardinality(cl) = 1
           /\ \A i \in cl :
                  Substr(ls[i], Len(StrContentLength)) = Dec(Len(BodyOf(last.out)))

\* a JSON entity whose header block was prebuilt, rendered into frozen bytes that
\* a later call returned again
C12Witness ==
    /\ last.op = "renderToString"
    /\ resp.jsonPtr_ # Null
    /\ resp.fullHeaderString_ # Null
    /\ resp.httpString_ # 0
    /\ BodyOf(last.out) # <<>>
    /\ \E i, j \in 1..Len(returned) : i < j /\ returned[i].id = returned[j].id

\* ------------------------------------------------ swap, clear and copies

kUnknown == 0
MaxLifeOps == 2

\* the members HttpResponseImpl::swap exchanges, among those of the model
SwappedFields ==
    {"headers_", "cookies_", "statusCode_", "statusMessage_", "closeConnection_",
     "bodyPtr_", "bodyViewPtr_", "jsonPtr_", "fullHeaderString_", "httpString_",
     "datePos_"}

\* HttpResponseImpl::swap: this and that after a.swap(b)
swap(a, b) ==
    [this |-> [f \in DOMAIN a |-> IF f \in SwappedFields THEN b[f] ELSE a[f]],
     that |-> [f \in DOMAIN b |-> IF f \in SwappedFields THEN a[f] ELSE b[f]]]

\* HttpResponseImpl::clear
clear(e) ==
    [e EXCEPT !.statusCode_ = kUnknown,
              !.statusMessage_ = <<>>,
              !.fullHeaderString_ = Null,
              !.headers_ = <<>>,
              !.cookies_ = <<>>,
              !.bodyPtr_ = Null,
              !.bodyViewPtr_ = Null,
              !.jsonPtr_ = Null,
              !.expriedTime_ = -1,
              !.datePos_ = npos]

\* resp.swap(other)
Swap ==
    /\ lifeOps < MaxLifeOps
    /\ lifeOps' = lifeOps + 1
    /\ resp' = swap(resp, other).this
    /\ other' = swap(resp, other).that
    /\ last' = [NoCall EXCEPT !.op = "swap"]
    /\ UNCHANGED <<heap, clock, fileOk, sendDate, sendServer, returned, input>>
    /\ UNCHANGED nfVars

Clear ==
    /\ lifeOps < MaxLifeOps
    /\ lifeOps' = lifeOps + 1
    /\ resp' = clear(resp)
    /\ last' = [NoCall EXCEPT !.op = "clear"]
    /\ UNCHANGED <<heap, clock, fileOk, sendDate, sendServer, returned, other, input>>
    /\ UNCHANGED nfVars

\* HttpResponseImpl(*resp) as in line 96: other becomes a memberwise copy of resp
CopyConstruct ==
    /\ lifeOps < MaxLifeOps
    /\ lifeOps' = lifeOps + 1
    /\ other' = resp
    /\ last' = [NoCall EXCEPT !.op = "copy"]
    /\ UNCHANGED <<resp, heap, clock, fileOk, sendDate, sendServer, returned, input>>
    /\ UNCHANGED nfVars

\* setExpiredTime(x) on an entity that holds no date offset: before its first
\* render, or after clear()
SetExpiredTime(x) ==
    /\ lifeOps < MaxLifeOps
    /\ lifeOps' = lifeOps + 1
    /\ resp.datePos_ = npos
    /\ resp.expriedTime_ # x
    /\ resp' = setExpiredTime(resp, x)
    /\ last' = [NoCall EXCEPT !.op = "setExpiredTime"]
    /\ UNCHANGED <<heap, clock, fileOk, sendDate, sendServer, returned, other, input>>
    /\ UNCHANGED nfVars

\* the caller turns to its other entity: the calls that follow are made on it
Focus ==
    /\ lifeOps < MaxLifeOps
    /\ lifeOps' = lifeOps + 1
    /\ resp' = other
    /\ other' = resp
    /\ last' = [NoCall EXCEPT !.op = "focus"]
    /\ UNCHANGED <<heap, clock, fileOk, sendDate, sendServer, returned, input>>
    /\ UNCHANGED nfVars

\* two entities of a handler: a file response or a plain one, and a Cacheable page
InitLife ==
    /\ resp \in {LargeFileResponse, PlainHi}
    /\ other = NotFoundPage
    /\ heap = <<>>
    /\ clock = 0
    /\ fileOk = TRUE
    /\ sendDate \in BOOLEAN
    /\ sendServer = TRUE
    /\ last = NoCall
    /\ returned = <<>>
    /\ lifeOps = 0
    /\ input = NoInput
    /\ InitNF

NextLife ==
    \/ RenderToString
    \/ RenderToBuffer
    \/ RenderHeaderForHeadMethod
    \/ AddHeader(LineXTag)
    \/ Swap
    \/ Clear
    \/ CopyConstruct
    \/ Focus
    \/ \E x \in {-1, 0} : SetExpiredTime(x)

SpecLife == InitLife /\ [][NextLife]_vars

\* ------------------------------------------------- claims C13, C18, C20

\* C13: when a file path is set, an output of renderToString or renderToBuffer
\* carries the file's size as its Content-Length and ends at the blank line,
\* also when the entity holds a byte body.
C13Claim ==
    (last.op \in {"renderToString", "renderToBuffer"} /\ ~last.failed /\ ~last.syserr
        /\ resp.sendfileName_ # <<>>) =>
        LET ls == LinesOf(last.out)
            cl == ContentLengthLines(ls)
        IN /\ FindBlankLine(last.out) # npos
           /\ Cardinality(cl) = 1
           /\ \A i \in cl : Substr(ls[i], Len(StrContentLength)) = Dec(FileSize)
           /\ BodyOf(last.out) = <<>>

\* C18: the assertion of line 379 has never failed, and an entity on which
\* renderToString would take the date-patch path (Cacheable, Date header on, a
\* date offset recorded) holds frozen bytes that reach 29 bytes past the offset.
C18Claim ==
    /\ ~last.failed
    /\ \A e \in {resp, other} :
           (e.expriedTime_ >= 0 /\ sendDate /\ e.datePos_ # npos) =>
               /\ e.httpString_ # 0
               /\ e.datePos_ + httpFullDateStringLength <= Len(heap[e.httpString_])

\* the bytes renderToString gives for e now, none when its assertion fails
Rendered(e) ==
    LET r == renderToString(e, heap, clock) IN
    IF r.failed THEN <<>> ELSE r.heap[r.ret]

\* e without frozen bytes, file path and last patched second
Unfrozen(e) ==
    [e EXCEPT !.httpString_ = 0, !.sendfileName_ = <<>>, !.httpStringDate_ = -1]

\* C20: right after clear(), whether the entity is marked Cacheable again or
\* not, a render gives the bytes it would give had the entity never held frozen
\* bytes, a file path or a patched second.
C20Claim ==
    last.op = "clear" =>
        \A x \in {-1, 0} :
            Rendered(setExpiredTime(resp, x)) = Rendered(setExpiredTime(Unfrozen(resp), x))

\* ------------------------------------------------------- the file factory

MaxSmallFile == 2

\* the file sizes tried: small ones and those around the limit of line 164
FileSizes == (0..MaxSmallFile) \cup ((SendfileLimit - 1)..(SendfileLimit + 2))

\* the arguments and the environment of one call of newFileResponse
FileInputs ==
    {[kind |-> "file", readable |-> rd, useSendfile |-> us, filesize |-> sz,
      attachmentFileName |-> att, ctString |-> ct] :
        rd \in BOOLEAN, us \in BOOLEAN, sz \in FileSizes,
        att \in {<<>>, StrAttachmentName}, ct \in {StrCTPlain, StrCTHtml}}

\* HttpResponse::newFileResponse(fullPath, attachmentFileName, type); a file that
\* cannot be opened gives the not-found page of the calling context
NewFileResponse(in) ==
    /\ resp' \in IF in.readable
                 THEN {newFileResponse(in.useSendfile, in.filesize,
                                       in.attachmentFileName, in.ctString)}
                 ELSE {NotFoundPage, setExpiredTime(NotFoundPage, -1)}
    /\ input' = in
    /\ last' = [NoCall EXCEPT !.op = "newFileResponse"]
    /\ UNCHANGED <<heap, clock, fileOk, sendDate, sendServer, returned, other, lifeOps>>
    /\ UNCHANGED nfVars

\* one call of the factory from a handler
InitFile ==
    /\ resp = newHttpResponse
    /\ InitEnv
    /\ InitNF

NextFile ==
    /\ input = NoInput
    /\ \E in \in FileInputs : NewFileResponse(in)

SpecFile == InitFile /\ [][NextFile]_vars

\* C14 as stated: the body representation follows from the file's size alone: a
\* file path for 204801 bytes or more, an owned body holding the whole file for
\* 204800 bytes or fewer.
C14Claim ==
    (last.op = "newFileResponse" /\ input.readable) =>
        IF input.filesize >= 204801
        THEN /\ resp.sendfileName_ = StrFile
             /\ resp.bodyPtr_ = Null
        ELSE /\ resp.sendfileName_ = <<>>
             /\ resp.bodyPtr_ = Some(FileContent(input.filesize))

\* C14, amended: with useSendfile() on, a readable file of 204801 bytes or more
\* gives a file-path body and one of 204800 bytes or fewer an owned body holding
\* the whole file; with useSendfile() off every readable file gives an owned body
\* holding the whole file.
C14Theorem ==
    (last.op = "newFileResponse" /\ input.readable) =>
        IF input.useSendfile /\ input.filesize >= 204801
        THEN /\ resp.sendfileName_ = StrFile
             /\ resp.bodyPtr_ = Null
             /\ resp.bodyViewPtr_ = Null
        ELSE /\ resp.sendfileName_ = <<>>
             /\ resp.bodyPtr_ = Some(FileContent(input.filesize))

\* with useSendfile() on, a file of exactly 204800 bytes was read into the body
C14Witness ==
    /\ last.op = "newFileResponse"
    /\ input.readable
    /\ input.useSendfile
    /\ input.filesize = 204800
    /\ resp.sendfileName_ = <<>>
    /\ resp.bodyPtr_ # Null
    /\ Len(resp.bodyPtr_[1]) = 204800

\* ------------------------------------------------------------ claim C16

\* C16: with the Date header off, a Cacheable entity records no date offset; a
\* render leaves frozen bytes that hold no Date line and end their header block
\* with the one blank line; and once frozen bytes exist every step keeps them
\* as they are and every renderToString returns that same string.
C16Theorem ==
    [][(~sendDate /\ resp'.expriedTime_ >= 0) =>
          /\ resp'.datePos_ = npos
          /\ last'.op \in {"renderToString", "renderToBuffer"} =>
                /\ resp'.httpString_ # 0
                /\ LinesNamed(heap'[resp'.httpString_], <<"d","a","t","e">>) = {}
                /\ FindBlankLine(heap'[resp'.httpString_]) # npos
                /\ last'.out = heap'[resp'.httpString_]
          /\ resp.httpString_ # 0 =>
                /\ resp'.httpString_ = resp.httpString_
                /\ heap' = heap
                /\ RenderToString => last'.ret = resp.httpString_]_vars

\* the frozen string was returned in two different seconds, the Date header off
C16Witness ==
    /\ ~sendDate
    /\ resp.expriedTime_ >= 0
    /\ last.op = "renderToString"
    /\ \E i, j \in 1..Len(returned) :
          /\ returned[i].sec < returned[j].sec
          /\ returned[i].id = returned[j].id
          /\ returned[j].id = resp.httpString_

\* ------------------------------------------------------------ claim C19

\* C19: every call of newNotFoundResponse returns: no context is left in a call
\* that exhausted its stack or entered call_once again from its own callable,
\* also when there is no custom 404 page and no template for the NotFound view.
C19Claim == stuck = {}

\* ------------------------------------------------------------ claim C21

\* C21: a step resp.swap(other) exchanges what the two entities render: after
\* it resp renders, at the same second, the bytes other rendered before it and
\* other those resp rendered before it; and one more swap gives back both
\* entities as they were.
C21Claim ==
    [][Swap =>
          /\ Rendered(resp') = Rendered(other)
          /\ Rendered(other') = Rendered(resp)
          /\ swap(resp', other') = [this |-> resp, that |-> other]]_vars
====
